---- MODULE Spec2Model ----
(***************************************************************************)
(* Model of MetricsTail (src/src/index.ts): the buffering / flush          *)
(* scheduler of workers-observability-utils, with the sink fanout of       *)
(* #performFlush and the aggregation store (MetricsDb) it drives.          *)
(*                                                                         *)
(* JavaScript runs processTraceItems, and the synchronous prefix of every  *)
(* async function (up to its first await that suspends), in one turn of    *)
(* the event loop.  One action of the model is one such turn:              *)
(*   ProcessTraceItems  a call of processTraceItems, including the         *)
(*                      synchronous part of the flush or of scheduleFlush  *)
(*   TimerFire          the continuation after scheduler.wait resolves     *)
(*   SinkSettle         one sendMetrics promise settling                   *)
(*   FlushComplete      the continuation after Promise.allSettled          *)
(***************************************************************************)
EXTENDS Integers, Sequences, FiniteSets, TLC

(***************************************************************************)
(* Bounds of the model.                                                    *)
(***************************************************************************)
\* Samples (stored metric events) ever accepted in one behaviour.
MaxSamples == 4
\* Trace items per processTraceItems call.
MaxItems == 2
\* Largest configured options.maxBufferSize explored.
MaxBufferSizeOpt == 2
\* Largest number of configured sinks explored.
MaxSinks == 2
\* Flushes awaiting their sinks at one time.
MaxInFlight == 1
\* scheduleFlush tasks waiting at one time.
MaxWaiting == 2
\* Largest flush generation explored.
MaxFlushId == 4
\* Flushes awaiting their sinks at one time, where flushes overlap.
MaxOverlap == 2

(***************************************************************************)
(* Program constants.                                                      *)
(***************************************************************************)
\* options.maxBufferSize || 100
DefaultMaxBufferSize == 100
\* options.maxBufferDuration || 5
DefaultMaxBufferDuration == 5
\* Math.min(..., 30)
MaxBufferDurationCap == 30
\* scheduler.wait(this.#maxBufferDuration * 1000)
MsPerSecond == 1000

METRICS_CHANNEL_NAME == "metrics"

\* Object.values(MetricType)
MetricTypeValues == {"COUNT", "GAUGE", "HISTOGRAM"}

(***************************************************************************)
(* JavaScript values, as far as isValidMetric and storeMetric look at      *)
(* them: a value is a record [t |-> its typeof, v |-> its content].        *)
(* A message is [kind |-> "object" | "null" | "string", f |-> its own      *)
(* properties], f a function from property names to values.                *)
(***************************************************************************)
Str(s) == [t |-> "string", v |-> s]
Num(n) == [t |-> "number", v |-> n]
Obj(o) == [t |-> "object", v |-> o]

NoTags == [x \in {} |-> ""]

Msg(type, name, value, tags) ==
    [kind |-> "object",
     f |-> [p \in {"type", "name", "value", "tags"} |->
              CASE p = "type" -> type
                [] p = "name" -> name
                [] p = "value" -> value
                [] OTHER -> tags]]

\* The diagnostics channel events a trace item may carry.
GoodA == [channel |-> METRICS_CHANNEL_NAME,
          message |-> Msg(Str("COUNT"), Str("a"), Num("1"), Obj(NoTags))]
GoodB == [channel |-> METRICS_CHANNEL_NAME,
          message |-> Msg(Str("GAUGE"), Str("b"), Num("1"), Obj(NoTags))]
BadType == [channel |-> METRICS_CHANNEL_NAME,
            message |-> Msg(Str("TIMER"), Str("a"), Num("1"), Obj(NoTags))]
BadValue == [channel |-> METRICS_CHANNEL_NAME,
             message |-> Msg(Str("COUNT"), Str("a"), Str("1"), Obj(NoTags))]
OtherChannel == [channel |-> "logs",
                 message |-> Msg(Str("COUNT"), Str("c"), Num("1"), Obj(NoTags))]

\* null: typeof null is "object", and spreading it yields no property.
Null == [t |-> "object", v |-> NoTags, null |-> TRUE]

\* Messages that are not metric payloads: tags null, no tags property, the
\* message null, the message a string.
NullTags == [channel |-> METRICS_CHANNEL_NAME,
             message |-> Msg(Str("COUNT"), Str("a"), Num("1"), Null)]
MissingTags == [channel |-> METRICS_CHANNEL_NAME,
                message |-> [kind |-> "object",
                             f |-> [p \in {"type", "name", "value"} |->
                                      CASE p = "type" -> Str("COUNT")
                                        [] p = "name" -> Str("a")
                                        [] OTHER -> Num("1")]]]
NullMessage == [channel |-> METRICS_CHANNEL_NAME,
                message |-> [kind |-> "null", f |-> NoTags]]
StringMessage == [channel |-> METRICS_CHANNEL_NAME,
                  message |-> [kind |-> "string", f |-> NoTags]]

\* A trace item, with the fields processTraceItems reads.
TraceItem(scriptName, events) ==
    [scriptName |-> scriptName,
     executionModel |-> "stateless",
     outcome |-> "ok",
     scriptVersionId |-> "v1",
     eventType |-> "fetch",
     diagnosticsChannelEvents |-> events]

\* The trace items a call may carry: two scripts, valid and invalid metric
\* events, events of other channels.
TraceItems ==
    {TraceItem("w1", <<>>),
     TraceItem("w1", <<GoodA>>),
     TraceItem("w1", <<BadType, GoodB>>),
     TraceItem("w2", <<GoodA, OtherChannel>>),
     TraceItem("w2", <<BadValue>>)}

RECURSIVE SeqsUpTo(_, _)
SeqsUpTo(S, n) ==
    IF n = 0 THEN {<<>>}
    ELSE LET shorter == SeqsUpTo(S, n - 1)
         IN shorter \cup {Append(s, x) : s \in {q \in shorter : Len(q) = n - 1}, x \in S}

\* The arguments of a processTraceItems call.
TraceInputs == SeqsUpTo(TraceItems, MaxItems)

\* Trace items carrying every kind of message, an invalid one before a valid
\* one included.
MessageItems ==
    {TraceItem("w1", <<GoodA>>),
     TraceItem("w1", <<NullTags>>),
     TraceItem("w1", <<MissingTags, GoodB>>),
     TraceItem("w1", <<NullMessage, StringMessage>>),
     TraceItem("w2", <<BadValue, OtherChannel, GoodA>>)}

MessageInputs == SeqsUpTo(MessageItems, MaxItems)

(***************************************************************************)
(* isValidMetric                                                           *)
(***************************************************************************)
isValidMetric(message) ==
    IF \/ message.kind # "object"
       \/ \E p \in {"type", "name", "value", "tags"} : p \notin DOMAIN message.f
    THEN FALSE
    ELSE IF ~(message.f["type"].t = "string" /\ message.f["type"].v \in MetricTypeValues)
    THEN FALSE
    ELSE /\ message.f["value"].t = "number"
         /\ message.f["name"].t = "string"
         /\ message.f["tags"].t = "object"

(***************************************************************************)
(* MetricsDb: the aggregation store.  One aggregated metric per key        *)
(* (type, name, tags); the model keeps, per key, the ids of the samples    *)
(* combined into it.                                                       *)
(***************************************************************************)
EmptyDb == [k \in {} |-> {}]

MetricKey(payload) == <<payload.type, payload.name, payload.tags>>

storeMetric(db, payload, id) ==
    LET key == MetricKey(payload)
    IN IF key \in DOMAIN db
       THEN [db EXCEPT ![key] = @ \cup {id}]
       ELSE db @@ (key :> {id})

\* Mutant of getMetricCount: the raw events stored are counted.
getMetricCountEvents(db) == Cardinality(UNION {db[k] : k \in DOMAIN db})

getMetricCount(db) == Cardinality(DOMAIN db)

\* One exported payload per aggregated metric.
toMetricPayloads(db) == {[key |-> k, samples |-> db[k]] : k \in DOMAIN db}

clearAll(db) == EmptyDb

(***************************************************************************)
(* The constructor: the options a MetricsTail is built from.               *)
(***************************************************************************)
\* options.defaultMetrics, as configured.
DefaultMetricsOptions ==
    {[cpuTime |-> "undefined", wallTime |-> "undefined", workersInvocation |-> "undefined"],
     [cpuTime |-> "false", wallTime |-> "false", workersInvocation |-> "false"]}

\* An optional numeric option: <<>> when the property is absent (undefined),
\* <<n>> when it is configured as n.
NotConfigured == <<>>

Configured(n) == <<n>>

\* The options the scheduler is explored with: a positive maxBufferSize, the
\* default maxBufferDuration.
Options ==
    [sinks : {[i \in 1..n |-> i] : n \in 1..MaxSinks},
     maxBufferSize : {Configured(n) : n \in 1..MaxBufferSizeOpt},
     maxBufferDuration : {NotConfigured},
     defaultMetrics : DefaultMetricsOptions]

\* The maxBufferDuration values (seconds) the constructor is explored with.
ConfiguredDurations == {0, 1, 31}

\* The options the constructor is explored with: every numeric option absent,
\* zero or positive, maxBufferDuration below, at and above the cap.
ConstructorOptions ==
    [sinks : {<<1>>},
     maxBufferSize : {NotConfigured} \cup {Configured(n) : n \in 0..MaxBufferSizeOpt},
     maxBufferDuration : {NotConfigured} \cup {Configured(n) : n \in ConfiguredDurations},
     defaultMetrics : {[cpuTime |-> "false", wallTime |-> "false",
                        workersInvocation |-> "false"]}]

\* option || default, for a numeric option: undefined and 0 are falsy.
OrDefault(option, default) ==
    IF option = NotConfigured THEN default
    ELSE IF option[1] = 0 THEN default
    ELSE option[1]

\* Math.min(a, b)
Min(a, b) == IF a <= b THEN a ELSE b

\* this.#maxBufferSize = options.maxBufferSize || 100
EffectiveMaxBufferSize(configured) == OrDefault(configured, DefaultMaxBufferSize)

\* this.#maxBufferDuration = Math.min(options.maxBufferDuration || 5, 30)
EffectiveMaxBufferDuration(configured) ==
    Min(OrDefault(configured, DefaultMaxBufferDuration), MaxBufferDurationCap)

\* scheduler.wait(this.#maxBufferDuration * 1000): the delay in milliseconds
WaitMs(duration) == duration * MsPerSecond

\* options.defaultMetrics?.x !== false
DefaultMetricEnabled(flag) == flag # "false"

VARIABLES
    options,                \* the options the MetricsTail was constructed with
    metricSinks,            \* #metricSinks
    maxBufferSize,          \* #maxBufferSize
    maxBufferDuration,      \* #maxBufferDuration
    defaultMetricsEnabled,  \* #defaultMetricsEnabled
    flushId,                \* #flushId
    metrics,                \* #metrics, the MetricsDb
    flushScheduled,         \* #flushScheduled
    timers,                 \* the localFlushId of every scheduleFlush task still waiting
    inflight,               \* the flushes awaiting Promise.allSettled
    batched,                \* per sample ever stored (1, 2, ...), the number of batches it was handed out in
    last                    \* the operation that ran last, and what it saw

vars == <<options, metricSinks, maxBufferSize, maxBufferDuration,
          defaultMetricsEnabled, flushId, metrics, flushScheduled, timers,
          inflight, batched, last>>

config == <<options, metricSinks, maxBufferSize, maxBufferDuration,
            defaultMetricsEnabled>>

(***************************************************************************)
(* processTraceItems, lines 80-113: storing the events of every trace      *)
(* item.  st is [db, next, warned]: the store, the id the next stored      *)
(* sample gets (samples are numbered in the order they are stored), and    *)
(* the number of warnings written.                                         *)
(***************************************************************************)
\* getEventTrigger(traceItem)
getEventTrigger(traceItem) == traceItem.eventType

GlobalTags(traceItem) ==
    [scriptName |-> traceItem.scriptName,
     executionModel |-> traceItem.executionModel,
     outcome |-> traceItem.outcome,
     versionId |-> traceItem.scriptVersionId,
     trigger |-> getEventTrigger(traceItem)]

\* { ...globalTags, ...message.tags }
MergeTags(globalTags, messageTags) == messageTags @@ globalTags

Store(st, payload) ==
    [st EXCEPT !.db = storeMetric(st.db, payload, st.next), !.next = st.next + 1]

\* #addDefaultMetrics
addDefaultMetrics(st, enabled, globalTags) ==
    LET s1 == IF enabled.cpuTime
              THEN Store(st, [type |-> "HISTOGRAM", name |-> "worker.cpu_time",
                              tags |-> globalTags])
              ELSE st
        s2 == IF enabled.wallTime
              THEN Store(s1, [type |-> "HISTOGRAM", name |-> "worker.wall_time",
                              tags |-> globalTags])
              ELSE s1
    IN IF enabled.workersInvocation
       THEN Store(s2, [type |-> "COUNT", name |-> "worker.invocation",
                       tags |-> globalTags])
       ELSE s2

\* The loop over metricEvents, lines 98-112.
RECURSIVE StoreEvents(_, _, _)
StoreEvents(st, metricEvents, globalTags) ==
    IF metricEvents = <<>> THEN st
    ELSE LET message == Head(metricEvents).message
             stored ==
                 IF isValidMetric(message)
                 THEN Store(st, [type |-> message.f["type"].v,
                                 name |-> message.f["name"].v,
                                 tags |-> MergeTags(globalTags, message.f["tags"].v)])
                 ELSE [st EXCEPT !.warned = @ + 1]
         IN StoreEvents(stored, Tail(metricEvents), globalTags)

\* The loop over traceItems, lines 80-113.
RECURSIVE StoreTraceItems(_, _, _)
StoreTraceItems(st, enabled, traceItems) ==
    IF traceItems = <<>> THEN st
    ELSE LET traceItem == Head(traceItems)
             metricEvents == SelectSeq(traceItem.diagnosticsChannelEvents,
                                       LAMBDA el : el.channel = METRICS_CHANNEL_NAME)
             globalTags == GlobalTags(traceItem)
             withDefaults == addDefaultMetrics(st, enabled, globalTags)
         IN StoreTraceItems(StoreEvents(withDefaults, metricEvents, globalTags),
                            enabled, Tail(traceItems))

(***************************************************************************)
(* #performFlush.  A flush record keeps the snapshot and, per configured   *)
(* sink, the state of its sendMetrics call:                                *)
(*   "notcalled"  sendMetrics was not invoked                              *)
(*   "pending"    invoked, its promise not settled                         *)
(*   "fulfilled", "rejected"  its promise settled (reason: the rejection)  *)
(*   "threw"      the call itself threw, inside sinks.map                  *)
(* done: the promise of #performFlush has resolved; reports: the           *)
(* console.error calls it made.                                            *)
(***************************************************************************)
Call(status, reason) == [status |-> status, reason |-> reason]

\* The message of the error sink i rejects with.
SinkReason(i) == <<"failed to send metrics", i>>

\* Mutant of MapSendMetrics: only the first sink is invoked.
MapSendMetricsFirstOnly(sinks, throwAt) ==
    [i \in 1..Len(sinks) |->
        IF i = 1 THEN Call("pending", <<>>) ELSE Call("notcalled", <<>>)]

\* this.#metricSinks.map((sink) => sink.sendMetrics(items)): the calls are made in
\* order; throwAt = 0 when every call returns its promise, else the index of
\* the sink whose call throws, which ends the map.
MapSendMetrics(sinks, throwAt) ==
    [i \in 1..Len(sinks) |->
        IF throwAt = 0 \/ i < throwAt THEN Call("pending", <<>>)
        ELSE IF i = throwAt THEN Call("threw", <<"threw", i>>)
        ELSE Call("notcalled", <<>>)]

\* What may go wrong in the synchronous part of a flush: the snapshot
\* (toMetricPayloads) throwing, and the sendMetrics call of sink throwAt
\* throwing (0: none does).
NoFault == [snapshot |-> FALSE, throwAt |-> 0]

SnapshotThrows == [snapshot |-> TRUE, throwAt |-> 0]

SinkThrows(sinks) == {[snapshot |-> FALSE, throwAt |-> i] : i \in 1..Len(sinks)}

FlushRecord(by, gen, items, calls, outcome, reports) ==
    [by |-> by, gen |-> gen, items |-> items, calls |-> calls,
     outcome |-> outcome, reports |-> reports]

NotCalled(sinks) == [i \in 1..Len(sinks) |-> Call("notcalled", <<>>)]

\* Mutant of performFlush: without the check of lines 155-158, an empty
\* snapshot is sent like any other.
performFlushNoSkip(db, sched, sinks, by, gen, fault) ==
    [metrics |-> clearAll(db),
     flushScheduled |-> FALSE,
     entry |-> FlushRecord(by, gen, toMetricPayloads(db), MapSendMetrics(sinks, 0),
                           "pending", <<>>)]

\* Mutant of performFlush: the snapshot is taken and sent, the store not cleared.
performFlushKeepStore(db, sched, sinks, by, gen, fault) ==
    LET items == toMetricPayloads(db)
    IN [metrics |-> db,
        flushScheduled |-> FALSE,
        entry |-> IF Cardinality(items) = 0
                  THEN FlushRecord(by, gen, items, NotCalled(sinks), "resolved", <<>>)
                  ELSE FlushRecord(by, gen, items, MapSendMetrics(sinks, 0),
                                   "pending", <<>>)]

\* Mutant of performFlush: without the reset of #flushScheduled of line 152.
performFlushKeepScheduled(db, sched, sinks, by, gen, fault) ==
    LET items == toMetricPayloads(db)
    IN [metrics |-> clearAll(db),
        flushScheduled |-> sched,
        entry |-> IF Cardinality(items) = 0
                  THEN FlushRecord(by, gen, items, NotCalled(sinks), "resolved", <<>>)
                  ELSE FlushRecord(by, gen, items, MapSendMetrics(sinks, 0),
                                   "pending", <<>>)]

\* Lines 148-163 and 171-173: the part of #performFlush that runs in the
\* caller's turn, up to the await of Promise.allSettled.  It yields the new
\* store, the new #flushScheduled and the flush record, whose outcome is the
\* state of the promise #performFlush returned.
performFlush(db, sched, sinks, by, gen, fault) ==
    IF fault.snapshot
    THEN \* line 149 throws: nothing after it runs, the promise is rejected
         [metrics |-> db,
          flushScheduled |-> sched,
          entry |-> FlushRecord(by, gen, {}, NotCalled(sinks), "rejected", <<>>)]
    ELSE LET items == toMetricPayloads(db)
         IN [metrics |-> clearAll(db),
             flushScheduled |-> FALSE,
             entry |->
                 IF Cardinality(items) = 0
                 THEN FlushRecord(by, gen, items, NotCalled(sinks), "resolved", <<>>)
                 ELSE IF fault.throwAt # 0
                 THEN \* the catch of line 171
                      FlushRecord(by, gen, items, MapSendMetrics(sinks, fault.throwAt),
                                  "resolved",
                                  <<[kind |-> "batch", count |-> 1, reasons |-> <<<<"threw", fault.throwAt>>>>]>>)
                 ELSE FlushRecord(by, gen, items, MapSendMetrics(sinks, 0),
                                  "pending", <<>>)]

(***************************************************************************)
(* What the last operation was and did: op, the #flushScheduled (sched),   *)
(* the store's count (count) and the generation (gen) it decided on,       *)
(* the warnings it wrote, the timer it armed (0: none), and the record of  *)
(* the flush it performed or completed (flushed says whether there is one),*)
(* and the delay in milliseconds it passed to scheduler.wait (wait).       *)
(***************************************************************************)
NoFlush == FlushRecord("none", 0, {}, <<>>, "none", <<>>)

Last(op, sched, count, gen, warned, armed, flushed, flush) ==
    [op |-> op, sched |-> sched, count |-> count, gen |-> gen, warned |-> warned,
     armed |-> armed, flushed |-> flushed, flush |-> flush, wait |-> 0]

\* The flushes still awaiting their sinks, after one more was performed.
Dispatch(pending, entry) ==
    IF entry.outcome = "pending" THEN pending \cup {entry} ELSE pending

\* The samples of a batch.
SamplesOf(items) == UNION {item.samples : item \in items}

\* batched, after a flush handed items to the fanout.
Batch(b, items) ==
    [id \in DOMAIN b |-> IF id \in SamplesOf(items) THEN b[id] + 1 ELSE b[id]]

(***************************************************************************)
(* processTraceItems, the whole call.                                      *)
(***************************************************************************)
\* Mutant of SizeTriggered: the threshold compared with > instead of >=.
SizeTriggeredStrict(count, max) == count > max

\* Line 115
SizeTriggered(count, max) == count >= max

\* Mutant of ShouldSchedule: a timer armed for an empty store too.
ShouldScheduleEmpty(count) == count >= 0

\* Line 131
ShouldSchedule(count) == count > 0

\* Mutant of Decide: without the early return of lines 126-128.
DecideRearm(count, max, sched) ==
    IF SizeTriggered(count, max) THEN "flush"
    ELSE IF ShouldSchedule(count) THEN "schedule"
    ELSE "nothing"

\* Mutant of Decide: without the size-triggered flush of lines 115-124.
DecideTimerOnly(count, max, sched) ==
    IF sched THEN "coalesce"
    ELSE IF ShouldSchedule(count) THEN "schedule"
    ELSE "nothing"

\* Lines 115-131: what processTraceItems does once the events are stored.
Decide(count, max, sched) ==
    IF SizeTriggered(count, max) THEN "flush"
    ELSE IF sched THEN "coalesce"
    ELSE IF ShouldSchedule(count) THEN "schedule"
    ELSE "nothing"

\* Mutant of Increment: the generation moves by two.
IncrementTwice(id) == id + 2

\* Mutant of Increment: the generation is not moved.
IncrementNone(id) == id

\* this.#flushId++ (line 120) and ++this.#flushId (line 135): the new #flushId
Increment(id) == id + 1

\* processTraceItems, while at most room flushes await their sinks.
ProcessTraceItemsWithin(traceItems, fault, room) ==
    LET st == StoreTraceItems([db |-> metrics, next |-> Len(batched) + 1, warned |-> 0],
                              defaultMetricsEnabled, traceItems)
        count == getMetricCount(st.db)
        stored == [id \in 1..(st.next - 1) |->
                      IF id \in DOMAIN batched THEN batched[id] ELSE 0]
        decision == Decide(count, maxBufferSize, flushScheduled)
    IN /\ st.next - 1 <= MaxSamples
       /\ CASE decision = "flush" ->
               \* lines 116-123: flush immediately
               LET flush == performFlush(st.db, FALSE, metricSinks, "size",
                                         Increment(flushId), fault)
               IN /\ flushId < MaxFlushId
                  /\ Cardinality(inflight) < room
                  /\ flushId' = Increment(flushId)
                  /\ metrics' = flush.metrics
                  /\ flushScheduled' = flush.flushScheduled
                  /\ inflight' = Dispatch(inflight, flush.entry)
                  /\ batched' = Batch(stored, flush.entry.items)
                  /\ last' = Last("process", flushScheduled, count, flushId,
                                  st.warned, 0, TRUE, flush.entry)
                  /\ UNCHANGED timers
            [] decision = "schedule" ->
               \* lines 131-145: scheduleFlush runs up to its await
               /\ fault = NoFault
               /\ flushId < MaxFlushId
               /\ Cardinality(timers) < MaxWaiting
               /\ metrics' = st.db
               /\ batched' = stored
               /\ flushScheduled' = TRUE
               /\ flushId' = Increment(flushId)
               /\ timers' = timers \cup {Increment(flushId)}
               /\ last' = [Last("process", flushScheduled, count, flushId,
                                st.warned, Increment(flushId), FALSE, NoFlush)
                           EXCEPT !.wait = WaitMs(maxBufferDuration)]
               /\ UNCHANGED inflight
            [] OTHER ->
               \* lines 126-128, and the end of the function
               /\ fault = NoFault
               /\ metrics' = st.db
               /\ batched' = stored
               /\ last' = Last("process", flushScheduled, count, flushId,
                               st.warned, 0, FALSE, NoFlush)
               /\ UNCHANGED <<flushId, flushScheduled, inflight, timers>>
       /\ UNCHANGED config

ProcessTraceItems(traceItems, fault) ==
    ProcessTraceItemsWithin(traceItems, fault, MaxInFlight)

(***************************************************************************)
(* scheduleFlush after its await, lines 138-141.                           *)
(***************************************************************************)
\* Mutant of TimerValid: a timer of an older generation flushes too.
TimerValidStale(localFlushId, liveFlushId) == localFlushId <= liveFlushId

\* Mutant of TimerValid: no completing timer performs its flush.
TimerValidNever(localFlushId, liveFlushId) == FALSE

\* Line 138
TimerValid(localFlushId, liveFlushId) == localFlushId = liveFlushId

\* The continuation of scheduleFlush, while at most room flushes await their
\* sinks.
TimerFireWithin(localFlushId, fault, room) ==
    /\ localFlushId \in timers
    /\ timers' = timers \ {localFlushId}
    /\ IF TimerValid(localFlushId, flushId)
       THEN LET flush == performFlush(metrics, flushScheduled, metricSinks, "timer",
                                      flushId, fault)
            IN /\ Cardinality(inflight) < room
               /\ metrics' = flush.metrics
               /\ flushScheduled' = flush.flushScheduled
               /\ inflight' = Dispatch(inflight, flush.entry)
               /\ batched' = Batch(batched, flush.entry.items)
               /\ last' = Last("timer", flushScheduled, getMetricCount(metrics),
                               localFlushId, 0, 0, TRUE, flush.entry)
       ELSE /\ fault = NoFault
            /\ last' = Last("timer", flushScheduled, getMetricCount(metrics),
                            localFlushId, 0, 0, FALSE, NoFlush)
            /\ UNCHANGED <<metrics, flushScheduled, inflight, batched>>
    /\ UNCHANGED <<config, flushId>>

TimerFire(localFlushId, fault) == TimerFireWithin(localFlushId, fault, MaxInFlight)

\* scheduler.wait rejects: the catch of line 141 swallows it.
TimerWaitRejects(localFlushId) ==
    /\ localFlushId \in timers
    /\ timers' = timers \ {localFlushId}
    /\ last' = Last("timerfail", flushScheduled, getMetricCount(metrics),
                    localFlushId, 0, 0, FALSE, NoFlush)
    /\ UNCHANGED <<config, flushId, metrics, flushScheduled, inflight, batched>>

(***************************************************************************)
(* The fanout, lines 161-170.                                              *)
(***************************************************************************)
\* One sendMetrics promise settles.
SinkSettle(flush, i, status, reason) ==
    /\ flush \in inflight
    /\ flush.calls[i].status = "pending"
    /\ LET settled == [flush EXCEPT !.calls[i] = Call(status, reason)]
       IN /\ inflight' = (inflight \ {flush}) \cup {settled}
          /\ last' = Last("settle", FALSE, 0, flush.gen, 0, 0, FALSE, settled)
    /\ UNCHANGED <<config, flushId, metrics, flushScheduled, timers, batched>>

Settled(call) == call.status \in {"fulfilled", "rejected"}

\* results.filter((el) => el.status === "rejected")
Rejected(calls) == SelectSeq(calls, LAMBDA c : c.status = "rejected")

\* Mutant of ErrorReports: one console.error per failed sink.
ErrorReportsPerSink(calls) ==
    LET errors == Rejected(calls)
    IN [k \in 1..Len(errors) |->
           [kind |-> "sinks", count |-> 1, reasons |-> <<errors[k].reason>>]]

\* Lines 164-170: the console.error calls of a fanout whose results are calls.
ErrorReports(calls) ==
    LET errors == Rejected(calls)
    IN IF Len(errors) > 0
       THEN <<[kind |-> "sinks", count |-> Len(errors),
               reasons |-> [k \in 1..Len(errors) |-> errors[k].reason]]>>
       ELSE <<>>

\* Promise.allSettled resolves once every promise has settled.
AllSettled(calls) == \A i \in DOMAIN calls : Settled(calls[i])

\* Mutant of FlushComplete: a batch with failed sinks is put back into the
\* store, to be sent again by the next flush.
FlushCompleteRequeue(flush) ==
    LET failed == Len(Rejected(flush.calls)) > 0
        keys == DOMAIN metrics \cup {item.key : item \in flush.items}
        requeued ==
            [k \in keys |->
                (IF k \in DOMAIN metrics THEN metrics[k] ELSE {})
                    \cup UNION {item.samples : item \in {x \in flush.items : x.key = k}}]
    IN /\ flush \in inflight
       /\ AllSettled(flush.calls)
       /\ inflight' = inflight \ {flush}
       /\ metrics' = IF failed THEN requeued ELSE metrics
       /\ last' = Last("complete", FALSE, 0, flush.gen, 0, 0, FALSE,
                       [flush EXCEPT !.outcome = "resolved",
                                     !.reports = ErrorReports(flush.calls)])
       /\ UNCHANGED <<config, flushId, flushScheduled, timers, batched>>

\* The continuation of #performFlush after line 161.
FlushComplete(flush) ==
    /\ flush \in inflight
    /\ AllSettled(flush.calls)
    /\ inflight' = inflight \ {flush}
    /\ last' = Last("complete", FALSE, 0, flush.gen, 0, 0, FALSE,
                    [flush EXCEPT !.outcome = "resolved",
                                  !.reports = ErrorReports(flush.calls)])
    /\ UNCHANGED <<config, flushId, metrics, flushScheduled, timers, batched>>

(***************************************************************************)
(* The specifications.                                                     *)
(***************************************************************************)
\* The constructor, lines 66-77, and the field initialisers, lines 57-59.
Construct(opts) ==
    /\ options = opts
    /\ metricSinks = opts.sinks
    /\ maxBufferSize = EffectiveMaxBufferSize(opts.maxBufferSize)
    /\ maxBufferDuration = EffectiveMaxBufferDuration(opts.maxBufferDuration)
    /\ defaultMetricsEnabled =
          [cpuTime |-> DefaultMetricEnabled(opts.defaultMetrics.cpuTime),
           wallTime |-> DefaultMetricEnabled(opts.defaultMetrics.wallTime),
           workersInvocation |->
               DefaultMetricEnabled(opts.defaultMetrics.workersInvocation)]
    /\ flushId = 0
    /\ metrics = EmptyDb
    /\ flushScheduled = FALSE
    /\ timers = {}
    /\ inflight = {}
    /\ batched = <<>>
    /\ last = Last("none", FALSE, 0, 0, 0, 0, FALSE, NoFlush)

Init == \E opts \in Options : Construct(opts)

Next ==
    \/ \E traceItems \in TraceInputs : ProcessTraceItems(traceItems, NoFault)
    \/ \E localFlushId \in timers : TimerFire(localFlushId, NoFault)
    \/ \E flush \in inflight, i \in DOMAIN metricSinks :
          \/ SinkSettle(flush, i, "fulfilled", <<>>)
          \/ SinkSettle(flush, i, "rejected", SinkReason(i))
    \/ \E flush \in inflight : FlushComplete(flush)

Spec == Init /\ [][Next]_vars

\* The program with sinks whose sendMetrics may throw when called, instead of
\* returning a promise that rejects.
NextSinkThrow ==
    \/ Next
    \/ \E traceItems \in TraceInputs, fault \in SinkThrows(metricSinks) :
          ProcessTraceItems(traceItems, fault)
    \/ \E localFlushId \in timers, fault \in SinkThrows(metricSinks) :
          TimerFire(localFlushId, fault)

SpecSinkThrow == Init /\ [][NextSinkThrow]_vars

\* The program with a store whose toMetricPayloads may throw.
NextSnapshotThrow ==
    \/ Next
    \/ \E traceItems \in TraceInputs : ProcessTraceItems(traceItems, SnapshotThrows)
    \/ \E localFlushId \in timers : TimerFire(localFlushId, SnapshotThrows)

SpecSnapshotThrow == Init /\ [][NextSnapshotThrow]_vars

\* The flush path entered directly, as a test of #performFlush enters it, in
\* whatever state the store is.
FlushPath ==
    LET flush == performFlush(metrics, flushScheduled, metricSinks, "direct",
                              flushId, NoFault)
    IN /\ Cardinality(inflight) < MaxInFlight
       /\ metrics' = flush.metrics
       /\ flushScheduled' = flush.flushScheduled
       /\ inflight' = Dispatch(inflight, flush.entry)
       /\ batched' = Batch(batched, flush.entry.items)
       /\ last' = Last("flush", flushScheduled, getMetricCount(metrics), flushId,
                       0, 0, TRUE, flush.entry)
       /\ UNCHANGED <<config, flushId, timers>>

NextFlushPath ==
    \/ Next
    \/ FlushPath

SpecFlushPath == Init /\ [][NextFlushPath]_vars

\* The program constructed with any of ConstructorOptions: numeric options
\* absent, zero, and beyond the cap.
InitConstructor == \E opts \in ConstructorOptions : Construct(opts)

SpecConstructor == InitConstructor /\ [][Next]_vars

\* The program fed with every kind of message.
NextMessages ==
    \/ \E traceItems \in MessageInputs : ProcessTraceItems(traceItems, NoFault)
    \/ \E localFlushId \in timers : TimerFire(localFlushId, NoFault)
    \/ \E flush \in inflight, i \in DOMAIN metricSinks :
          \/ SinkSettle(flush, i, "fulfilled", <<>>)
          \/ SinkSettle(flush, i, "rejected", SinkReason(i))
    \/ \E flush \in inflight : FlushComplete(flush)

SpecMessages == Init /\ [][NextMessages]_vars

\* The program with up to MaxOverlap flushes awaiting their sinks at a time,
\* constructed with MaxSinks sinks and without default metrics.
OverlapOptions ==
    [sinks : {[i \in 1..MaxSinks |-> i]},
     maxBufferSize : {Configured(MaxBufferSizeOpt)},
     maxBufferDuration : {NotConfigured},
     defaultMetrics : {[cpuTime |-> "false", wallTime |-> "false",
                        workersInvocation |-> "false"]}]

InitOverlap == \E opts \in OverlapOptions : Construct(opts)

\* Calls that carry one trace item.
OverlapInputs == {<<traceItem>> : traceItem \in TraceItems}

NextOverlap ==
    \/ \E traceItems \in OverlapInputs :
          ProcessTraceItemsWithin(traceItems, NoFault, MaxOverlap)
    \/ \E localFlushId \in timers : TimerFireWithin(localFlushId, NoFault, MaxOverlap)
    \/ \E flush \in inflight, i \in DOMAIN metricSinks :
          \/ SinkSettle(flush, i, "fulfilled", <<>>)
          \/ SinkSettle(flush, i, "rejected", SinkReason(i))
    \/ \E flush \in inflight : FlushComplete(flush)

SpecOverlap == InitOverlap /\ [][NextOverlap]_vars

\* The scheduling the runtime provides: a sendMetrics promise that is pending
\* settles, and the continuation of a fanout whose promises have all settled
\* runs.
FanoutFairness ==
    /\ WF_vars(\E flush \in inflight, i \in DOMAIN metricSinks :
                  \/ SinkSettle(flush, i, "fulfilled", <<>>)
                  \/ SinkSettle(flush, i, "rejected", SinkReason(i)))
    /\ WF_vars(\E flush \in inflight : FlushComplete(flush))

\* The program while the process lives: every scheduler.wait resolves, so
\* every scheduleFlush task continues after its await.
SpecLive ==
    /\ Init /\ [][Next]_vars
    /\ \A localFlushId \in 1..MaxFlushId : WF_vars(TimerFire(localFlushId, NoFault))
    /\ FanoutFairness

\* The program with scheduled tasks that may fail: scheduler.wait may reject,
\* and the snapshot of the flush a timer performs may throw.
NextScheduledTaskFails ==
    \/ Next
    \/ \E localFlushId \in timers : TimerWaitRejects(localFlushId)
    \/ \E localFlushId \in timers : TimerFire(localFlushId, SnapshotThrows)

\* Every scheduleFlush task continues after its await, one way or the other.
SpecScheduledTaskFails ==
    /\ Init /\ [][NextScheduledTaskFails]_vars
    /\ \A localFlushId \in 1..MaxFlushId :
          WF_vars(\/ TimerFire(localFlushId, NoFault)
                  \/ TimerFire(localFlushId, SnapshotThrows)
                  \/ TimerWaitRejects(localFlushId))
    /\ FanoutFairness

(***************************************************************************)
(* The claims.                                                             *)
(***************************************************************************)
\* The samples held in a store.
StoreSamples(db) == UNION {db[k] : k \in DOMAIN db}

\* C1, first part: a timer that completes flushes if and only if the generation
\* it captured is the live one; a flush it performs takes the whole store, and
\* a timer that does not flush changes neither the store nor the fanout.
C1_TimerCompletes ==
    LET localFlushId == last'.gen
    IN /\ localFlushId \in timers
       /\ localFlushId \notin timers'
       /\ last'.flushed <=> (localFlushId = flushId)
       /\ localFlushId = flushId =>
             /\ last'.flush.by = "timer"
             /\ SamplesOf(last'.flush.items) = StoreSamples(metrics)
             /\ metrics' = EmptyDb
       /\ localFlushId # flushId =>
             /\ last'.flush = NoFlush
             /\ UNCHANGED <<metrics, inflight, batched, flushScheduled, flushId>>

\* C1, second part: a size-triggered flush leaves no waiting timer with the
\* live generation, and a waiting timer that is stale stays stale whatever is
\* ingested or armed later.
C1_PreemptedStaysStale ==
    /\ (last'.op = "process" /\ last'.flushed) => \A t \in timers' : t # flushId'
    /\ \A t \in timers \cap timers' : t # flushId => t # flushId'

\* C1: a scheduled-flush timer that completes performs a flush if and only if
\* its captured generation equals #flushId; a timer pre-empted by a
\* size-triggered flush performs none (no sink invoked, the store unchanged),
\* also when events were ingested and a new timer armed in between.
C1_TimerFlushesIffGenerationLive ==
    [][(last'.op = "timer" => C1_TimerCompletes) /\ C1_PreemptedStaysStale]_vars

\* C1 witness: a pre-empted timer has just fired without flushing, after the
\* size-triggered flush and after new events were stored and a new timer armed.
C1_Witness ==
    /\ last.op = "timer"
    /\ ~last.flushed
    /\ last.gen + 2 <= flushId
    /\ flushScheduled
    /\ flushId \in timers
    /\ getMetricCount(metrics) > 0

\* C2, the state part: every sample ever stored is either still in the store
\* and in no batch, or out of the store and in exactly one batch.
C2_InStoreXorInOneBatch ==
    \A id \in DOMAIN batched :
        IF id \in StoreSamples(metrics) THEN batched[id] = 0 ELSE batched[id] = 1

\* C2, the step part: the batch of a flush is exactly the samples stored before
\* its snapshot and in no earlier batch (those of the flushing call included),
\* and the store is empty after it.
C2_FlushTakesAllStored ==
    last'.flushed =>
        /\ SamplesOf(last'.flush.items)
              = {id \in DOMAIN batched' : id \notin DOMAIN batched \/ batched[id] = 0}
        /\ metrics' = EmptyDb

\* C2: each accepted event is in at most one flushed batch, and at every moment
\* either still in the store or in exactly one batch handed to the fanout; an
\* event stored before a flush's snapshot-and-clear is in that batch, one stored
\* after it is not.
C2_EachEventInExactlyOnePlace ==
    [](C2_InStoreXorInOneBatch) /\ [][C2_FlushTakesAllStored]_vars

\* C2 witness: one sample has been flushed and its batch is with the sinks,
\* while a sample stored after that flush waits in the store.
C2_Witness ==
    /\ inflight # {}
    /\ \E id \in DOMAIN batched : batched[id] = 1
    /\ \E id \in DOMAIN batched : batched[id] = 0 /\ id \in StoreSamples(metrics)

\* C3: when the count after storing is >= maxBufferSize, the call has performed
\* one size-triggered flush: the generation incremented by one, the store
\* empty, flushScheduled false, no timer armed, every waiting timer stale.
C3_SizeTriggerFlushesOnce ==
    (last.op = "process" /\ last.count >= maxBufferSize) =>
        /\ last.flushed
        /\ last.flush.by = "size"
        /\ last.flush.gen = flushId
        /\ last.armed = 0
        /\ flushId = last.gen + 1
        /\ getMetricCount(metrics) = 0
        /\ ~flushScheduled
        /\ \A t \in timers : t # flushId

\* C3 witness: a call reached the threshold while a timer was pending.
C3_Witness ==
    /\ last.op = "process"
    /\ last.count >= maxBufferSize
    /\ last.sched
    /\ timers # {}

\* C4: a call in state Scheduled whose count stays below maxBufferSize arms no
\* timer, leaves the generation and flushScheduled (true) as they are, and
\* performs no flush.
C4_ScheduledCoalesces ==
    [][(last'.op = "process" /\ last'.sched /\ last'.count < maxBufferSize) =>
          /\ flushScheduled
          /\ flushScheduled'
          /\ timers' = timers
          /\ flushId' = flushId
          /\ inflight' = inflight
          /\ ~last'.flushed
          /\ last'.armed = 0]_vars

\* C4 witness: a second ingestion went into the window of a pending timer.
C4_Witness ==
    /\ last.op = "process"
    /\ last.sched
    /\ last.count > 0
    /\ last.count < maxBufferSize
    /\ Cardinality(StoreSamples(metrics)) >= 2
    /\ timers = {flushId}

\* C5: an Idle call with 0 < count < maxBufferSize increments the generation by
\* one, arms one timer capturing the new generation and becomes Scheduled; with
\* an empty store it arms nothing, keeps the generation and stays Idle.
C5_IdleSchedulesOnce ==
    [][(last'.op = "process" /\ ~last'.sched) =>
          /\ (0 < last'.count /\ last'.count < maxBufferSize) =>
                /\ ~flushScheduled
                /\ flushScheduled'
                /\ flushId' = flushId + 1
                /\ flushId' \notin timers
                /\ timers' = timers \cup {flushId'}
                /\ last'.armed = flushId'
                /\ ~last'.flushed
                /\ inflight' = inflight
          /\ last'.count = 0 =>
                /\ timers' = timers
                /\ flushId' = flushId
                /\ ~flushScheduled'
                /\ ~last'.flushed
                /\ last'.armed = 0]_vars

\* C5 witness: an Idle call has just armed the timer of the live generation.
C5_Witness ==
    /\ last.op = "process"
    /\ ~last.sched
    /\ last.armed = flushId
    /\ flushId \in timers
    /\ flushScheduled
    /\ last.count < maxBufferSize

\* The sinks of a fanout whose sendMetrics failed.
FailedSinks(calls) == {i \in DOMAIN calls : calls[i].status \in {"rejected", "threw"}}

\* C6: in every flush with a non-empty batch sendMetrics is invoked on every
\* configured sink, whichever sinks fail and however (a rejected promise, or a
\* throw at the moment sendMetrics is called), and the flush completes only
\* once every sink has settled.
C6_EverySinkAttempted ==
    (last.flushed /\ last.flush.items # {}) =>
        /\ \A i \in DOMAIN last.flush.calls : last.flush.calls[i].status # "notcalled"
        /\ last.flush.outcome = "resolved" =>
              \A i \in DOMAIN last.flush.calls :
                  last.flush.calls[i].status \in {"fulfilled", "rejected", "threw"}

C8_EmptyFlushSendsNothing ==
    /\ (last.flushed /\ last.count = 0) =>
          /\ last.flush.items = {}
          /\ \A i \in DOMAIN last.flush.calls : last.flush.calls[i].status = "notcalled"
          /\ last.flush.outcome = "resolved"
          /\ last.flush \notin inflight
    /\ \A flush \in inflight : flush.items # {}
    /\ last.flushed =>
          ((\E i \in DOMAIN last.flush.calls : last.flush.calls[i].status # "notcalled")
              => last.flush.items # {})

\* C8 witness: the flush path has just run on an empty store.
C8_Witness ==
    /\ last.op = "flush"
    /\ last.flushed
    /\ last.count = 0
    /\ metrics = EmptyDb

\* C9, the step part: a sink settling and a fanout completing, failed or not,
\* leave the store, flushScheduled, the generation and the timers as they are
\* and send nothing again; a flush whose sendMetrics throws still ends with
\* the store cleared and the scheduler Idle.
C9_FailureChangesNoSchedulerState ==
    /\ last'.op \in {"settle", "complete"} =>
          /\ UNCHANGED <<metrics, flushScheduled, flushId, timers, batched>>
          /\ \A after \in inflight' :
                \E before \in inflight :
                    /\ before.gen = after.gen
                    /\ before.items = after.items
                    /\ \A i \in DOMAIN after.calls :
                          after.calls[i].status = "pending"
                              => before.calls[i].status = "pending"
    /\ (last'.flushed /\ FailedSinks(last'.flush.calls) # {}) =>
          /\ metrics' = EmptyDb
          /\ ~flushScheduled'

\* C9: a flush whose sinks fail is not retried and blocks nothing: its batch
\* never returns to the store and no sample is sent in a second batch, the
\* store stays cleared and the scheduler decides later calls on the same state
\* as after a successful flush.
C9_FailedFlushNotRetried ==
    [](\A id \in DOMAIN batched : batched[id] <= 1)
        /\ [][C9_FailureChangesNoSchedulerState]_vars

\* C9 witness: a flush completed with a failed sink while the events ingested
\* after it are buffered under a newly armed timer.
C9_Witness ==
    /\ last.op = "complete"
    /\ last.flush.reports # <<>>
    /\ getMetricCount(metrics) > 0
    /\ flushScheduled
    /\ flushId \in timers
    /\ \A id \in StoreSamples(metrics) : id \notin SamplesOf(last.flush.items)

\* C10: every flush cycle, also one whose snapshot (toMetricPayloads) throws,
\* ends with the failure caught inside #performFlush and the store cleared.
C10_FlushFailureCaughtStoreCleared ==
    (last.flushed /\ last.op \in {"process", "timer"}) =>
        /\ last.flush.outcome \in {"pending", "resolved"}
        /\ getMetricCount(metrics) = 0

\* C11: the scheduler is never stuck: whenever it is Scheduled it eventually
\* is Idle again (flushScheduled false), also when the wait or the flush of the
\* scheduled task fails and when the pending timer was pre-empted.
C11_ScheduledLeadsToIdle == flushScheduled ~> ~flushScheduled

\* C12 as stated: every step in which a flush executes, size-triggered or
\* performed by a timer on completion, increments the generation.
C12_EveryFlushIncrements ==
    [][(last'.op \in {"process", "timer"} /\ last'.flushed) => flushId' = flushId + 1]_vars

\* C12, amended: the generation is incremented by one when a size-triggered
\* flush executes (which is also what pre-empts a pending scheduled flush) and
\* when a scheduled flush is armed, the timer capturing the incremented value;
\* a timer that completes, performing its flush or not, leaves the generation
\* as it is, and so does everything else.
C12_GenerationLifecycle ==
    [][/\ (last'.op = "process" /\ last'.flushed) =>
             /\ flushId' = flushId + 1
             /\ last'.flush.by = "size"
             /\ last'.sched => (flushId \in timers' /\ flushId # flushId')
       /\ (last'.op = "process" /\ last'.armed # 0) =>
             /\ flushId' = flushId + 1
             /\ last'.armed = flushId'
       /\ (last'.op = "process" /\ ~last'.flushed /\ last'.armed = 0) =>
             flushId' = flushId
       /\ last'.op \in {"timer", "settle", "complete"} => flushId' = flushId]_vars

\* C12 witness: a timer has performed its scheduled flush and the generation
\* is still the one captured when the timer was armed.
C12_Witness ==
    /\ last.op = "timer"
    /\ last.flushed
    /\ last.flush.by = "timer"
    /\ last.flush.items # {}
    /\ last.flush.gen = flushId
    /\ last.gen = flushId

\* C13, the step part: no step decreases the generation, and a timer being
\* armed captures a generation larger than the one before it, hence larger
\* than those of all timers armed earlier.
C13_ArmedAboveAllEarlier ==
    /\ flushId' >= flushId
    /\ (last'.op = "process" /\ ~flushScheduled /\ flushScheduled') =>
          /\ last'.armed > flushId
          /\ last'.armed = flushId'
          /\ \A t \in timers : t < last'.armed
          /\ timers' = timers \cup {last'.armed}
    /\ \A t \in timers' \ timers : t = last'.armed /\ t > flushId

\* C13: #flushId never decreases, and every two timers ever armed capture
\* distinct generations, the later-armed one the larger: no captured
\* generation exceeds the live one, and each newly captured one does.
C13_GenerationMonotonic ==
    [](\A t \in timers \cup {last.armed} : t <= flushId)
        /\ [][C13_ArmedAboveAllEarlier]_vars

\* C13 witness: two timers wait with different generations, the one armed
\* last holding the larger, live one.
C13_Witness ==
    /\ Cardinality(timers) = 2
    /\ last.op = "process"
    /\ last.armed = flushId
    /\ last.armed \in timers
    /\ \E t \in timers : t < last.armed

\* A mapping: an object that is not null.
IsMapping(value) == value.t = "object" /\ "null" \notin DOMAIN value

\* The structural validity check as the claim states it: the message is an
\* object whose type is one of Count, Gauge, Histogram, whose name is a string,
\* whose value is numeric and whose tags is a mapping.
StructurallyValid(message) ==
    /\ message.kind = "object"
    /\ {"type", "name", "value", "tags"} \subseteq DOMAIN message.f
    /\ message.f["type"].t = "string"
    /\ message.f["type"].v \in {"COUNT", "GAUGE", "HISTOGRAM"}
    /\ message.f["name"].t = "string"
    /\ message.f["value"].t = "number"
    /\ IsMapping(message.f["tags"])

\* The metric-channel events of a call that are structurally valid, and those
\* that are not.
RECURSIVE ValidEvents(_)
ValidEvents(traceItems) ==
    IF traceItems = <<>> THEN 0
    ELSE Len(SelectSeq(Head(traceItems).diagnosticsChannelEvents,
                       LAMBDA el : el.channel = "metrics" /\ StructurallyValid(el.message)))
         + ValidEvents(Tail(traceItems))

RECURSIVE InvalidEvents(_)
InvalidEvents(traceItems) ==
    IF traceItems = <<>> THEN 0
    ELSE Len(SelectSeq(Head(traceItems).diagnosticsChannelEvents,
                       LAMBDA el : el.channel = "metrics" /\ ~StructurallyValid(el.message)))
         + InvalidEvents(Tail(traceItems))

\* The default metrics stored per trace item.
DefaultsPerItem ==
    Cardinality({x \in {"cpuTime", "wallTime", "workersInvocation"} :
                    defaultMetricsEnabled[x]})

\* C14: a call passes to storeMetric exactly the metrics-channel messages of
\* its trace items that are structurally valid (type one of Count, Gauge,
\* Histogram, name a string, value numeric, tags a mapping), beside the
\* default metrics; it drops every other metrics-channel message with one
\* warning and goes on with the events and trace items that follow.
C14_OnlyValidStored ==
    [][\A traceItems \in MessageInputs :
          ProcessTraceItems(traceItems, NoFault) =>
              /\ Len(batched') - Len(batched)
                    = ValidEvents(traceItems) + Len(traceItems) * DefaultsPerItem
              /\ last'.warned = InvalidEvents(traceItems)]_vars

\* C15, the step part: the count a call compares with maxBufferSize is the
\* number of distinct keys the store holds once the call's events are stored;
\* events that all share one key raise it by at most one, and on an empty
\* store they trigger no size-based flush when maxBufferSize > 1.
C15_CallCountsKeys ==
    last'.op = "process" =>
        LET held == IF last'.flushed
                    THEN [k \in {item.key : item \in last'.flush.items} |->
                             UNION {item.samples : item \in {x \in last'.flush.items : x.key = k}}]
                    ELSE metrics'
            new == DOMAIN batched' \ DOMAIN batched
        IN /\ last'.count = Cardinality(DOMAIN held)
           /\ last'.flushed <=> last'.count >= maxBufferSize
           /\ (\E k \in DOMAIN held : new \subseteq held[k]) =>
                 /\ last'.count <= Cardinality(DOMAIN metrics) + 1
                 /\ (metrics = EmptyDb /\ maxBufferSize > 1) => ~last'.flushed

\* C15: the store holds one aggregated metric per distinct key (a snapshot has
\* one payload per key), and the quantity compared with maxBufferSize is the
\* number of those keys, not the number of events ingested.
C15_CountsDistinctKeys ==
    [](/\ Cardinality(toMetricPayloads(metrics)) = Cardinality(DOMAIN metrics)
       /\ \A a, b \in last.flush.items : a.key = b.key => a = b)
        /\ [][C15_CallCountsKeys]_vars

\* C15 witness: one call on an empty store has stored two events under one
\* key; the count is 1, below maxBufferSize = 2, and no flush was triggered.
C15_Witness ==
    /\ last.op = "process"
    /\ ~last.sched
    /\ ~last.flushed
    /\ last.count = 1
    /\ maxBufferSize = 2
    /\ \E k \in DOMAIN metrics : Cardinality(metrics[k]) >= 2

\* The value an optional numeric option stands for when it is configured, and
\* default when it is not.
ConfiguredOr(option, default) ==
    IF option = NotConfigured THEN default ELSE option[1]

\* C16: for every configured value, #maxBufferSize is the configured integer, or
\* 100 when none is configured; #maxBufferDuration is the configured number of
\* seconds, or 5 when none is configured, and in no case more than 30; an armed
\* timer waits that duration times 1000 milliseconds.
C16_EffectiveOptions ==
    /\ maxBufferSize = ConfiguredOr(options.maxBufferSize, 100)
    /\ maxBufferDuration
          = (LET seconds == ConfiguredOr(options.maxBufferDuration, 5)
             IN IF seconds > 30 THEN 30 ELSE seconds)
    /\ maxBufferDuration <= 30
    /\ (last.op = "process" /\ last.armed # 0) => last.wait = maxBufferDuration * 1000

\* C17, the state part: every flush awaiting its sinks holds a non-empty batch
\* and one sendMetrics call per configured sink; two flushes in flight hold
\* different batches, and no sample was handed out in two batches.
C17_OneCallPerSinkInFlight ==
    /\ \A flush \in inflight :
          /\ flush.items # {}
          /\ DOMAIN flush.calls = DOMAIN metricSinks
          /\ \A i \in DOMAIN flush.calls : flush.calls[i].status # "notcalled"
    /\ \A f, g \in inflight :
          f # g => (f.gen # g.gen /\ SamplesOf(f.items) \cap SamplesOf(g.items) = {})
    /\ \A id \in DOMAIN batched : batched[id] <= 1

\* C17, the step part: a flush with a non-empty batch invokes sendMetrics on
\* every configured sink, once, with the one batch of the flush; a call that is
\* pending after a step was either made by the flush of that step or was
\* pending before it, in the same flush with the same batch.
C17_InvokedOncePerFlush ==
    /\ (last'.flushed /\ last'.flush.items # {}) =>
          /\ DOMAIN last'.flush.calls = DOMAIN metricSinks
          /\ \A i \in DOMAIN metricSinks : last'.flush.calls[i].status = "pending"
          /\ last'.flush \in inflight'
          /\ \A other \in inflight : other.gen # last'.flush.gen
    /\ \A after \in inflight' :
          \/ last'.flushed /\ after = last'.flush /\ after \notin inflight
          \/ \E before \in inflight :
                /\ before.gen = after.gen
                /\ before.items = after.items
                /\ \A i \in DOMAIN after.calls :
                      after.calls[i].status = "pending" => before.calls[i].status = "pending"

C18_OneTriggerPerCall ==
    last'.op = "process" =>
        /\ Cardinality(inflight' \ inflight) + Cardinality(timers' \ timers) <= 1
        /\ ~(last'.flushed /\ last'.armed # 0)
        /\ last'.count >= maxBufferSize => (last'.flushed /\ metrics' = EmptyDb)
        /\ last'.count < maxBufferSize => getMetricCount(metrics') = last'.count

C19_ScheduledIffLiveTimer ==
    /\ flushScheduled <=> flushId \in timers
    /\ getMetricCount(metrics) > 0 => (flushScheduled /\ flushId \in timers)

\* C19, the step part: a timer is armed only with a generation no waiting
\* timer holds, so at most one waiting timer holds the live generation.
C19_ArmedGenerationFresh ==
    \/ timers' \subseteq timers
    \/ /\ last'.armed \notin timers
       /\ timers' = timers \cup {last'.armed}
       /\ last'.armed = flushId'
       /\ \A t \in timers : t # flushId'

C20_LiveTimerTakesWindow ==
    (last'.op = "timer" /\ last'.gen = flushId) =>
        /\ last'.flushed
        /\ \A id \in StoreSamples(metrics) :
              id \in SamplesOf(last'.flush.items) /\ batched'[id] = 1

====
